---- MODULE Spec2Model ----
(***************************************************************************)
(* A model of fplpicker.py: the points estimator (weight_stats,            *)
(* estimate_fpl_pts), the concurrent enrichment phase (enrich,             *)
(* enrich_single, get_external_no_cache_update) and the squad optimizer    *)
(* (optimize_squad).                                                       *)
(*                                                                         *)
(* Numbers.  The program computes with floats; the model computes with     *)
(* integers in fixed units:                                                *)
(*   - league ratings are carried in tenths (90.6 is 906);                 *)
(*   - every points value of the estimator and of the enrichment phase is  *)
(*     carried in units of 1/PL_BASE, so that goals * (rating / PL_BASE)   *)
(*     is the integer goals * rating;                                      *)
(*   - costs are carried in tenths of a million, i.e. as the feed's        *)
(*     now_cost (cost = now_cost / 10.0), and so is BUDGET.                *)
(***************************************************************************)
EXTENDS Integers, Sequences, FiniteSets, TLC

VARIABLES
    \* ---- points estimator (one call of weight_stats, estimate_fpl_pts)
    est_pc,        \* "idle" | "start" | "weighted" | "done"
    est_in,        \* [goals, assists, league, pos]
    est_w,         \* <<gw, aw>> returned by weight_stats
    est_pts,       \* value returned by estimate_fpl_pts
    \* ---- enrich
    players,       \* the input rows, in DataFrame order
    disk,          \* the rows of CACHE_FILE
    cache,         \* enrich's local `cache`
    main_pc,       \* "idle" | "load" | "submit" | "collect" | "save" | "returned"
    fut_pc,        \* per future: "none" | "queued" | "cache" | "tm" | "fbref"
                   \*             | "estimate" | "done"
    rec,           \* per future: enrich_single's `rec`, <<>> until it is set
    row,           \* per future: the row the worker holds (and returns)
    enriched_rows, \* enrich's `enriched_rows`
    df,            \* the DataFrame enrich returns
    done_order,    \* history: futures in the order they completed
    \* ---- optimize_squad
    opt_pc,        \* "idle" | "start" | "built" | "solved" | "checked" | "returned"
    pool,          \* the index of the `players` DataFrame given to optimize_squad
    status,        \* pulp.LpStatus[prob.status]
    varValue,      \* var.varValue of each player_vars[idx]
    printed,       \* what optimize_squad has printed
    ret            \* what optimize_squad returned to its caller

est_vars == <<est_pc, est_in, est_w, est_pts>>
enr_vars == <<players, disk, cache, main_pc, fut_pc, rec, row,
              enriched_rows, df, done_order>>
opt_vars == <<opt_pc, pool, status, varValue, printed, ret>>
vars == <<est_vars, enr_vars, opt_vars>>

NaN == "NaN"

Positions == {"GK", "DEF", "MID", "FWD"}

(***************************************************************************)
(* Configuration                                                           *)
(***************************************************************************)
BUDGET == 1000

SQUAD_STRUCTURE == [p \in Positions |->
    CASE p = "GK" -> 2 [] p = "DEF" -> 5 [] p = "MID" -> 5 [] p = "FWD" -> 3]

MAX_PER_TEAM == 3

SEASON == "2025/2026"

max_workers == 10

Leagues == {"Premier League", "La Liga", "Serie A", "Bundesliga", "Ligue 1",
            "Eredivisie", "Primeira Liga", "Belgian Pro League", "Championship",
            "Scottish Premiership", "Brazil Serie A", "MLS", "Argentine Primera",
            "Russian Premier League", "Turkish Super Lig", "Austrian Bundesliga",
            "Swiss Super League", "Mexican Liga MX", "Japanese J1 League"}

LEAGUE_DIFFICULTY == [l \in Leagues |->
    CASE l = "Premier League" -> 906
      [] l = "La Liga" -> 848
      [] l = "Serie A" -> 848
      [] l = "Bundesliga" -> 842
      [] l = "Ligue 1" -> 843
      [] l = "Eredivisie" -> 772
      [] l = "Primeira Liga" -> 788
      [] l = "Belgian Pro League" -> 800
      [] l = "Championship" -> 795
      [] l = "Scottish Premiership" -> 740
      [] l = "Brazil Serie A" -> 808
      [] l = "MLS" -> 748
      [] l = "Argentine Primera" -> 775
      [] l = "Russian Premier League" -> 750
      [] l = "Turkish Super Lig" -> 750
      [] l = "Austrian Bundesliga" -> 750
      [] l = "Swiss Super League" -> 757
      [] l = "Mexican Liga MX" -> 735
      [] l = "Japanese J1 League" -> 700]

PL_BASE == LEAGUE_DIFFICULTY["Premier League"]

(***************************************************************************)
(* Points estimator                                                        *)
(***************************************************************************)
\* LEAGUE_DIFFICULTY.get(league, PL_BASE)
Rating(league) ==
    IF league \in DOMAIN LEAGUE_DIFFICULTY THEN LEAGUE_DIFFICULTY[league] ELSE PL_BASE

\* factor = rating / PL_BASE; returns (goals * factor, assists * factor),
\* here in units of 1/PL_BASE.
weight_stats(goals, assists, league) ==
    <<goals * Rating(league), assists * Rating(league)>>

GoalPointsMidAsDef(pos) ==
    IF pos = "GK" THEN 10
    ELSE IF pos = "DEF" THEN 6
    ELSE IF pos = "MID" THEN 6
    ELSE 4

\* the if / elif chain that sets gp
GoalPoints(pos) ==
    IF pos = "GK" THEN 10
    ELSE IF pos = "DEF" THEN 6
    ELSE IF pos = "MID" THEN 5
    ELSE 4

estimate_fpl_pts(goals, assists, pos) ==
    goals * GoalPoints(pos) + assists * 3

(***************************************************************************)
(* One call of the estimator on inputs drawn from bounded sets             *)
(***************************************************************************)
MaxGoals == 2
MaxAssists == 2

EstLeagues == {"Premier League", "La Liga", "Japanese J1 League",
               "Unknown", "Unknown (FBref)"}

EstIdle ==
    /\ est_pc = "idle" /\ est_in = <<>> /\ est_w = <<>> /\ est_pts = 0

EstInit ==
    /\ est_pc = "start"
    /\ est_in \in [goals : 0..MaxGoals, assists : 0..MaxAssists,
                   league : EstLeagues, pos : Positions \cup {NaN}]
    /\ est_w = <<>>
    /\ est_pts = 0

CallWeightStats ==
    /\ est_pc = "start"
    /\ est_w' = weight_stats(est_in.goals, est_in.assists, est_in.league)
    /\ est_pc' = "weighted"
    /\ UNCHANGED <<est_in, est_pts, enr_vars, opt_vars>>

CallEstimateFplPts ==
    /\ est_pc = "weighted"
    /\ est_pts' = estimate_fpl_pts(est_w[1], est_w[2], est_in.pos)
    /\ est_pc' = "done"
    /\ UNCHANGED <<est_in, est_w, enr_vars, opt_vars>>

EstNext == CallWeightStats \/ CallEstimateFplPts

(***************************************************************************)
(* Enrichment                                                              *)
(*                                                                         *)
(* A feed row, as fetch_fpl_data builds it, has no "ext_league" and no     *)
(* "estimated_points" column: row.get("ext_league") is None there.  A row  *)
(* is a record; a column the row lacks is a field the record lacks.  The   *)
(* field idx is the row's label in the DataFrame's index.                  *)
(***************************************************************************)
MaxPlayers == 2

FeedRow(name, web_name, pos, total_points) ==
    [name |-> name, web_name |-> web_name, pos |-> pos, total_points |-> total_points]

\* The rows enrich is given: two rows of the feed (one with official points,
\* one new signing with a blank name and no points yet) and one row that
\* already carries a league attribution.  Official points p are p * PL_BASE
\* in the model's unit.
RowKinds ==
    { FeedRow("Erling Haaland", "Haaland", "FWD", 57 * PL_BASE),
      FeedRow("", "Newboy", "MID", 0),
      [name |-> "Joao Pedro", web_name |-> "J.Pedro", pos |-> "DEF",
       total_points |-> 12 * PL_BASE, ext_league |-> "Premier League"] }

\* The cache file as earlier runs may have left it.
CacheFiles ==
    { <<>>,
      << [fpl_name |-> "Erling Haaland", source_name |-> "Haaland",
          league |-> "Bundesliga", season |-> SEASON, goals |-> 2, assists |-> 1,
          minutes |-> 180, notes |-> "Transfermarkt"] >>,
      << [fpl_name |-> "New Boy", source_name |-> "Newboy",
          league |-> "Unknown", season |-> SEASON, goals |-> 0, assists |-> 0,
          minutes |-> 0, notes |-> "none"] >> }

\* What fetch_tm_stats can return: None (<<>>) or the dict parse_transfermarkt builds.
TmAnswers ==
    { <<>>, << [league |-> "La Liga", goals |-> 2, assists |-> 1, minutes |-> 900] >> }

\* What fetch_fbref_stats can return: None (<<>>) or the dict parse_fbref builds.
FbAnswers ==
    { <<>>, << [league |-> "Unknown (FBref)", goals |-> 1, assists |-> 2, minutes |-> 0] >> }

N == Len(players)

\* pd.isna(row.get("ext_league"))
ExtLeagueIsNa(r) ==
    \/ "ext_league" \notin DOMAIN r
    \/ r.ext_league = NaN

\* pname = row["name"].strip() or row["web_name"].strip()
PName(r) == IF r.name # "" THEN r.name ELSE r.web_name

\* cache[(cache["fpl_name"] == player_name) | (cache["source_name"] == web_name)]
CacheRows(c, player_name, web_name) ==
    SelectSeq(c, LAMBDA x : x.fpl_name = player_name \/ x.source_name = web_name)

\* rec = {**stats, "fpl_name": ..., "source_name": ..., "season": SEASON, "notes": src}
FoundRec(stats, player_name, web_name, src) ==
    [fpl_name |-> player_name, source_name |-> web_name, league |-> stats.league,
     season |-> SEASON, goals |-> stats.goals, assists |-> stats.assists,
     minutes |-> stats.minutes, notes |-> src]

NoStatsRecOneGoal(player_name, web_name) ==
    [fpl_name |-> player_name, source_name |-> web_name, league |-> "Unknown",
     season |-> SEASON, goals |-> 1, assists |-> 0, minutes |-> 0, notes |-> "none"]

\* the record built when no source has stats
NoStatsRec(player_name, web_name) ==
    [fpl_name |-> player_name, source_name |-> web_name, league |-> "Unknown",
     season |-> SEASON, goals |-> 0, assists |-> 0, minutes |-> 0, notes |-> "none"]

\* enrich's `new_records`: the list the deferred cache update iterates over
new_records == <<>>

\* the row enrich_single returns once rec is known
EnrichedRow(r, rc) ==
    LET w == weight_stats(rc.goals, rc.assists, rc.league)
        est == estimate_fpl_pts(w[1], w[2], r.pos)
    IN  [total_points |-> est, estimated_points |-> est, ext_league |-> rc.league] @@ r

Running == {i \in 1..N : fut_pc[i] \in {"cache", "tm", "fbref", "estimate"}}

EnrIdle ==
    /\ players = <<>> /\ disk = <<>> /\ cache = <<>> /\ main_pc = "idle"
    /\ fut_pc = <<>> /\ rec = <<>> /\ row = <<>> /\ enriched_rows = <<>>
    /\ df = <<>> /\ done_order = <<>>

EnrInit ==
    /\ \E n \in 1..MaxPlayers : \E kinds \in [1..n -> RowKinds] :
          players = [i \in 1..n |-> [idx |-> i] @@ kinds[i]]
    /\ disk \in CacheFiles
    /\ cache = <<>>
    /\ main_pc = "load"
    /\ fut_pc = [i \in 1..N |-> "none"]
    /\ rec = [i \in 1..N |-> <<>>]
    /\ row = [i \in 1..N |-> <<>>]
    /\ enriched_rows = <<>>
    /\ df = <<>>
    /\ done_order = <<>>

\* cache = load_cache()
LoadCache ==
    /\ main_pc = "load"
    /\ cache' = disk
    /\ main_pc' = "submit"
    /\ UNCHANGED <<players, disk, fut_pc, rec, row, enriched_rows, df, done_order,
                 est_vars, opt_vars>>

\* futures = [executor.submit(enrich_single, row, cache) for _, row in players.iterrows()]
Submit ==
    /\ main_pc = "submit"
    /\ \E i \in 1..N :
        /\ fut_pc[i] = "none"
        /\ \A j \in 1..(i - 1) : fut_pc[j] # "none"
        /\ fut_pc' = [fut_pc EXCEPT ![i] = "queued"]
        /\ row' = [row EXCEPT ![i] = <<players[i]>>]
        /\ main_pc' = IF i = N THEN "collect" ELSE "submit"
    /\ UNCHANGED <<players, disk, cache, rec, enriched_rows, df, done_order,
                 est_vars, opt_vars>>

\* a pool thread takes the task; enrich_single tests pd.isna(row.get("ext_league"))
Start(i) ==
    /\ fut_pc[i] = "queued"
    /\ Cardinality(Running) < max_workers
    /\ IF ExtLeagueIsNa(row[i][1])
         THEN /\ fut_pc' = [fut_pc EXCEPT ![i] = "cache"]
              /\ UNCHANGED done_order
         ELSE /\ fut_pc' = [fut_pc EXCEPT ![i] = "done"]
              /\ done_order' = Append(done_order, i)
    /\ UNCHANGED <<players, disk, cache, main_pc, rec, row, enriched_rows, df,
                 est_vars, opt_vars>>

\* get_external_no_cache_update: the read-only cache check
CacheCheck(i) ==
    /\ fut_pc[i] = "cache"
    /\ LET r == row[i][1]
           hits == CacheRows(cache, PName(r), r.web_name)
       IN  IF hits # <<>>
             THEN /\ rec' = [rec EXCEPT ![i] = <<hits[1]>>]
                  /\ fut_pc' = [fut_pc EXCEPT ![i] = "estimate"]
             ELSE /\ rec' = rec
                  /\ fut_pc' = [fut_pc EXCEPT ![i] = "tm"]
    /\ UNCHANGED <<players, disk, cache, main_pc, row, enriched_rows, df, done_order,
                 est_vars, opt_vars>>

\* stats = fetch_tm_stats(player_name)
TmLookup(i) ==
    /\ fut_pc[i] = "tm"
    /\ \E stats \in TmAnswers :
        LET r == row[i][1]
        IN  IF stats # <<>>
              THEN /\ rec' = [rec EXCEPT ![i] =
                                <<FoundRec(stats[1], PName(r), r.web_name, "Transfermarkt")>>]
                   /\ fut_pc' = [fut_pc EXCEPT ![i] = "estimate"]
              ELSE /\ rec' = rec
                   /\ fut_pc' = [fut_pc EXCEPT ![i] = "fbref"]
    /\ UNCHANGED <<players, disk, cache, main_pc, row, enriched_rows, df, done_order,
                 est_vars, opt_vars>>

\* stats = fetch_fbref_stats(player_name), then the record for no stats at all
FbLookup(i) ==
    /\ fut_pc[i] = "fbref"
    /\ \E stats \in FbAnswers :
        LET r == row[i][1]
        IN  rec' = [rec EXCEPT ![i] =
                      IF stats # <<>>
                        THEN <<FoundRec(stats[1], PName(r), r.web_name, "FBref")>>
                        ELSE <<NoStatsRec(PName(r), r.web_name)>>]
    /\ fut_pc' = [fut_pc EXCEPT ![i] = "estimate"]
    /\ UNCHANGED <<players, disk, cache, main_pc, row, enriched_rows, df, done_order,
                 est_vars, opt_vars>>

\* enrich_single: weight, estimate, overwrite the row, return it
Estimate(i) ==
    /\ fut_pc[i] = "estimate"
    /\ row' = [row EXCEPT ![i] = <<EnrichedRow(row[i][1], rec[i][1])>>]
    /\ fut_pc' = [fut_pc EXCEPT ![i] = "done"]
    /\ done_order' = Append(done_order, i)
    /\ UNCHANGED <<players, disk, cache, main_pc, rec, enriched_rows, df,
                 est_vars, opt_vars>>

NextFutureAsCompleted ==
    {i \in 1..N : fut_pc[i] = "done" /\ \A k \in 1..Len(enriched_rows) :
                                          enriched_rows[k].idx # i}

\* for future in futures: the future whose result() is awaited next
NextFuture == {Len(enriched_rows) + 1} \cap (1..N)

\* enriched_rows.append(future.result())
Collect ==
    /\ main_pc = "collect"
    /\ \E i \in NextFuture :
        /\ fut_pc[i] = "done"
        /\ enriched_rows' = Append(enriched_rows, row[i][1])
    /\ UNCHANGED <<players, disk, cache, main_pc, fut_pc, rec, row, df, done_order,
                 est_vars, opt_vars>>

\* the executor's with-block ends (every future is done); df = pd.DataFrame(enriched_rows)
BuildFrame ==
    /\ main_pc = "collect"
    /\ Len(enriched_rows) = N
    /\ \A i \in 1..N : fut_pc[i] = "done"
    /\ df' = enriched_rows
    /\ main_pc' = "save"
    /\ UNCHANGED <<players, disk, cache, fut_pc, rec, row, enriched_rows, done_order,
                 est_vars, opt_vars>>

\* for r in new_records: cache.loc[len(cache)] = r; save_cache(cache); return df
SaveCache ==
    /\ main_pc = "save"
    /\ cache' = cache \o new_records
    /\ disk' = cache'
    /\ main_pc' = "returned"
    /\ UNCHANGED <<players, fut_pc, rec, row, enriched_rows, df, done_order,
                 est_vars, opt_vars>>

EnrNext ==
    \/ LoadCache
    \/ Submit
    \/ \E i \in 1..N : Start(i)
    \/ \E i \in 1..N : CacheCheck(i)
    \/ \E i \in 1..N : TmLookup(i)
    \/ \E i \in 1..N : FbLookup(i)
    \/ \E i \in 1..N : Estimate(i)
    \/ Collect
    \/ BuildFrame
    \/ SaveCache

(***************************************************************************)
(* Squad optimizer                                                         *)
(*                                                                         *)
(* optimize_squad is given a DataFrame; here its rows are the rows of      *)
(* Catalogue whose labels are in `pool`.                                   *)
(***************************************************************************)
PlayerRow(pos, team, cost, total_points) ==
    [pos |-> pos, team |-> team, cost |-> cost, total_points |-> total_points]

\* 1..15 make one squad of the required structure costing 99.5, three players
\* from each of five teams.  16..19 are further players, 20 is a feed element
\* whose element_type is not in pos_map (pos is NaN), 21 has a negative cost.
Catalogue ==
    <<  PlayerRow("GK",  "A",  50, 120), PlayerRow("GK",  "B",  45, 100),
        PlayerRow("DEF", "A",  60, 130), PlayerRow("DEF", "A",  55, 110),
        PlayerRow("DEF", "B",  50, 100), PlayerRow("DEF", "C",  50,  90),
        PlayerRow("DEF", "D",  45,  80), PlayerRow("MID", "B", 120, 250),
        PlayerRow("MID", "C",  95, 200), PlayerRow("MID", "C",  80, 150),
        PlayerRow("MID", "D",  65, 120), PlayerRow("MID", "E",  55, 100),
        PlayerRow("FWD", "D", 105, 220), PlayerRow("FWD", "E",  75, 140),
        PlayerRow("FWD", "E",  45,  60),
        PlayerRow("GK",  "F",  45, 100), PlayerRow("DEF", "A",  50, 200),
        PlayerRow("MID", "F", 125, 300), PlayerRow("FWD", "F",  40, 500),
        PlayerRow(NaN,   "F",   5,  50), PlayerRow("MID", "F", -10,  10)  >>

Core == 1..15
Extras == 16..21

MaxExtras == 2
MaxSmall == 2

\* The DataFrames optimize_squad is given: the fifteen with up to MaxExtras
\* further players, and collections of at most MaxSmall players.
Pools ==
    {Core \cup X : X \in {Y \in SUBSET Extras : Cardinality(Y) <= MaxExtras}}
    \cup {P \in SUBSET (Core \cup Extras) : Cardinality(P) \in 1..MaxSmall}

RECURSIVE Sum(_, _)
Sum(f, S) == IF S = {} THEN 0
             ELSE LET i == CHOOSE x \in S : TRUE IN f[i] + Sum(f, S \ {i})

ObjectiveCoeffCost(i) == Catalogue[i].cost

\* players.loc[idx, "total_points"]
ObjectiveCoeff(i) == Catalogue[i].total_points

\* lpSum(players.loc[idx, "total_points"] * var ...), at the assignment that sets
\* exactly the variables of S to 1
Objective(P, S) == Sum([i \in P |-> ObjectiveCoeff(i)], S)

\* lpSum(players.loc[idx, "cost"] * var ...) at that assignment
TotalCost(P, S) == Sum([i \in P |-> Catalogue[i].cost], S)

BudgetCeiling(P, S) == TotalCost(P, S) <= BUDGET

\* BUDGET * 0.99
BudgetFloor(P, S) == TotalCost(P, S) * 100 >= BUDGET * 99

\* players[players["pos"] == pos].index
PlayersAt(P, pos) == {i \in P : Catalogue[i].pos = pos}

\* the assignments of the variables of position pos that meet its constraint
\* lpSum(...) == count
PicksFor(P, pos) ==
    {T \in SUBSET PlayersAt(P, pos) : Cardinality(T) = SQUAD_STRUCTURE[pos]}

\* The assignments that meet every position constraint.  A player whose pos is
\* no key of SQUAD_STRUCTURE is in no position constraint.
PositionExact(P) ==
    {G \cup D \cup M \cup F \cup X :
        G \in PicksFor(P, "GK"), D \in PicksFor(P, "DEF"),
        M \in PicksFor(P, "MID"), F \in PicksFor(P, "FWD"),
        X \in SUBSET {i \in P : Catalogue[i].pos \notin DOMAIN SQUAD_STRUCTURE}}

\* for team in players["team"].unique(): lpSum(...) <= MAX_PER_TEAM
TeamCap(P, S) ==
    \A team \in {Catalogue[i].team : i \in P} :
        Cardinality({i \in S : Catalogue[i].team = team}) <= MAX_PER_TEAM

\* the assignments that meet all the constraints added to prob
Feasible(P) ==
    {S \in PositionExact(P) : BudgetCeiling(P, S) /\ BudgetFloor(P, S) /\ TeamCap(P, S)}

\* LpMaximize: the feasible assignments of greatest objective
Optimal(P) ==
    LET F == Feasible(P)
    IN  {S \in F : \A T \in F : Objective(P, T) <= Objective(P, S)}

Indicator(P, S) == [i \in P |-> IF i \in S THEN 1 ELSE 0]

WarningNever(st) == <<>>

\* if pulp.LpStatus[prob.status] != "Optimal": print(f"Warning: Solver status: ...")
Warning(st) ==
    IF st # "Optimal" THEN << [text |-> "Warning: Solver status", status |-> st] >>
    ELSE <<>>

\* selected_idx = [idx for idx, var in player_vars.items() if var.varValue > 0.5]
SelectedIdx == {i \in DOMAIN varValue : 2 * varValue[i] > 1}

OptIdle ==
    /\ opt_pc = "idle" /\ pool = {} /\ status = "Not Solved" /\ varValue = <<>>
    /\ printed = <<>> /\ ret = <<>>

OptInit ==
    /\ opt_pc = "start"
    /\ pool \in Pools
    /\ status = "Not Solved"
    /\ varValue = <<>>
    /\ printed = <<>>
    /\ ret = <<>>

\* The problem is built and prob.solve() runs.  On a feasible problem the solver
\* ends Optimal at one of the optimal assignments; on an infeasible one it ends
\* Infeasible and leaves in the variables whatever values it stopped at.
Solve ==
    /\ opt_pc = "start"
    /\ IF Feasible(pool) # {}
         THEN /\ status' = "Optimal"
              /\ \E S \in Optimal(pool) : varValue' = Indicator(pool, S)
         ELSE /\ status' = "Infeasible"
              /\ \E S \in SUBSET pool : varValue' = Indicator(pool, S)
    /\ opt_pc' = "solved"
    /\ UNCHANGED <<pool, printed, ret, est_vars, enr_vars>>

CheckStatus ==
    /\ opt_pc = "solved"
    /\ printed' = printed \o Warning(status)
    /\ opt_pc' = "checked"
    /\ UNCHANGED <<pool, status, varValue, ret, est_vars, enr_vars>>

\* squad = players.loc[selected_idx].copy(); return squad
ReturnSquad ==
    /\ opt_pc = "checked"
    /\ ret' = [kind |-> "squad", squad |-> SelectedIdx]
    /\ opt_pc' = "returned"
    /\ UNCHANGED <<pool, status, varValue, printed, est_vars, enr_vars>>

OptNext == Solve \/ CheckStatus \/ ReturnSquad

(***************************************************************************)
(* Specifications                                                          *)
(***************************************************************************)
InitEst == EstInit /\ EnrIdle /\ OptIdle
SpecEst == InitEst /\ [][EstNext]_vars

InitEnrich == EnrInit /\ EstIdle /\ OptIdle
SpecEnrich == InitEnrich /\ [][EnrNext]_vars

InitOpt == OptInit /\ EstIdle /\ EnrIdle
SpecOpt == InitOpt /\ [][OptNext]_vars

(***************************************************************************)
(* Properties                                                              *)
(***************************************************************************)
Points(S) == Sum([i \in S |-> Catalogue[i].total_points], S)

CostOf(S) == Sum([i \in S |-> Catalogue[i].cost], S)

\* the constraints as the squad's definition states them
MeetsConstraints(S) ==
    /\ \A p \in Positions :
          Cardinality({i \in S : Catalogue[i].pos = p}) = SQUAD_STRUCTURE[p]
    /\ \A i \in S : Cardinality({j \in S : Catalogue[j].team = Catalogue[i].team}) <= 3
    /\ CostOf(S) <= BUDGET
    /\ CostOf(S) * 100 >= 99 * BUDGET

\* C1: every squad optimize_squad returns has 2 + 5 + 5 + 3 players, the
\* required number at each position, at most 3 players of a team, and a total
\* cost between 0.99 x BUDGET and BUDGET.
C1_ReturnedSquadMeetsConstraints ==
    opt_pc = "returned" =>
        /\ Cardinality(ret.squad) = 2 + 5 + 5 + 3
        /\ MeetsConstraints(ret.squad)

\* C2: when optimize_squad has returned a squad, no subset of the input players
\* that meets the budget ceiling, the budget floor, the exact position counts
\* and the team cap has strictly more total points than the returned squad.
C2_NoFeasibleSubsetScoresMore ==
    opt_pc = "returned" =>
        \A T \in PositionExact(pool) :
            MeetsConstraints(T) => Points(T) <= Points(ret.squad)

\* a squad was returned for a pool in which feasible subsets differ in points
C2_Witness ==
    /\ opt_pc = "returned"
    /\ ret.squad # Core
    /\ \E T \in PositionExact(pool) :
          MeetsConstraints(T) /\ Points(T) < Points(ret.squad)

\* C3: when no subset of the input players meets all the constraints,
\* optimize_squad reports Infeasible to its caller and returns no squad.
C3_InfeasibleIsReported ==
    (opt_pc = "returned" /\ \A T \in PositionExact(pool) : ~ MeetsConstraints(T)) =>
        ret.kind = "Infeasible"

\* C7: no squad is computed from an input that holds a record with a negative
\* cost or with a position outside GK, DEF, MID, FWD: the optimizer does not
\* get to solve.
C7_InvalidInputIsRejected ==
    (\E i \in pool : Catalogue[i].cost < 0 \/ Catalogue[i].pos \notin Positions) =>
        opt_pc \notin {"solved", "checked", "returned"}

C4_OneRowPerPlayerInOrder ==
    main_pc = "returned" =>
        /\ Len(df) = Len(players)
        /\ \A i \in 1..Len(players) :
              /\ df[i].idx = players[i].idx
              /\ df[i].web_name = players[i].web_name

\* enrich returned although a later future completed before the first one
C4_Witness ==
    /\ main_pc = "returned"
    /\ Len(done_order) >= 2
    /\ done_order[1] # 1

\* a future's rec came from a lookup of this run, not from the cache
Fresh(i) ==
    /\ rec[i] # <<>>
    /\ CacheRows(cache, PName(players[i]), players[i].web_name) = <<>>

\* C5: the cache file is not written while a lookup is still running, and when
\* enrich returns, every record a lookup of this run obtained is in the cache
\* file exactly once.
C5_DeferredWritePersistsNewRecords ==
    [][ /\ disk' # disk => \A i \in 1..N : fut_pc[i] = "done"
        /\ main_pc' = "returned" =>
              \A i \in 1..N :
                 Fresh(i) => Len(SelectSeq(disk', LAMBDA x : x = rec[i][1])) = 1
      ]_vars

\* no cache row matched the player and both sources had no stats
NoStatsAnywhere(i) ==
    /\ Fresh(i)
    /\ rec[i][1].notes = "none"

\* C9: a player who is not in the cache and for whom Transfermarkt and FBref
\* both return nothing is given 0 goals, 0 assists and league "Unknown", an
\* estimate of 0 points, and is kept in the collection enrich returns.
C9_UnknownPlayerKeptWithZeroPoints ==
    \A i \in 1..N :
        NoStatsAnywhere(i) =>
            /\ rec[i][1].goals = 0 /\ rec[i][1].assists = 0
            /\ rec[i][1].league = "Unknown"
            /\ Rating(rec[i][1].league) = PL_BASE
            /\ fut_pc[i] = "done" =>
                  /\ row[i][1].total_points = 0
                  /\ row[i][1].estimated_points = 0
                  /\ row[i][1].ext_league = "Unknown"
            /\ main_pc = "returned" =>
                  /\ i <= Len(df)
                  /\ df[i] = row[i][1]
                  /\ df[i].idx = players[i].idx

\* enrich returned a collection that holds such a player
C9_Witness ==
    /\ main_pc = "returned"
    /\ \E i \in 1..N : NoStatsAnywhere(i) /\ df[i].total_points = 0

\* C10: a player that enters enrich from the feed with official points leaves
\* it with the same total_points.
C10_OfficialPointsUnchanged ==
    main_pc = "returned" =>
        \A i \in 1..N :
            ("ext_league" \notin DOMAIN players[i] /\ players[i].total_points # 0) =>
                df[i].total_points = players[i].total_points

\* C6: the estimate is goals*factor*goal_weight + assists*factor*3 with
\* factor = strength(league) / strength(Premier League) and goal weights 10, 6,
\* 5, 4 for GK, DEF, MID, FWD; a league absent from the table gives factor 1;
\* no goals and no assists give 0 points.  (Values in units of 1/PL_BASE.)
C6_EstimateFormula ==
    est_pc = "done" =>
        LET g == est_in.goals
            a == est_in.assists
            strength == IF est_in.league \in Leagues
                          THEN LEAGUE_DIFFICULTY[est_in.league]
                          ELSE LEAGUE_DIFFICULTY["Premier League"]
            goal_weight == CASE est_in.pos = "GK" -> 10
                             [] est_in.pos = "DEF" -> 6
                             [] est_in.pos = "MID" -> 5
                             [] est_in.pos = "FWD" -> 4
        IN  /\ est_in.pos \in Positions =>
                  est_pts = g * strength * goal_weight + a * strength * 3
            /\ (est_in.pos \in Positions /\ est_in.league \notin Leagues) =>
                  est_pts = LEAGUE_DIFFICULTY["Premier League"]
                              * (g * goal_weight + a * 3)
            /\ (g = 0 /\ a = 0) => est_pts = 0

\* the estimate of a midfielder with goals and assists in a league the table lacks
C6_Witness ==
    /\ est_pc = "done"
    /\ est_in.league = "Unknown"
    /\ est_in.pos = "MID"
    /\ est_in.goals = 2
    /\ est_in.assists = 1
    /\ est_pts = 906 * 13

====
